---- MODULE Spec2Model ----
(***************************************************************************)
(* Model of repsim.geometry: geodesic.py (path_length, subdivide_geodesic, *)
(* point_along, midpoint) and trig.py (slerp, angle).                      *)
(*                                                                         *)
(* Points are one-dimensional ambient coordinates held in fixed point: one *)
(* unit is 1e-6, so the default pt_tol of 1e-6 is 1 unit.  Fractions are   *)
(* numerators over FracDen.  Caller points lie on multiples of Grid, which *)
(* keeps every interpolation the code computes exact in integers.         *)
(* The manifold (length, project) and the optimizer (minimize) are the     *)
(* external collaborators of the code; the optimizer's outcome is a        *)
(* nondeterministic input of every action that reaches it.                 *)
(***************************************************************************)
EXTENDS Integers, Sequences, FiniteSets, TLC

VARIABLES pc, op, stack, ret, err, warnings, calls, mids, maxDepth, failures

vars == <<pc, op, stack, ret, err, warnings, calls, mids, maxDepth, failures>>

(* ------------------------------ bounds -------------------------------- *)

MaxPts == 3
MaxOctaves == 2
MaxFailures == 1

Grid == 8 * 100
Points == {0, Grid, 2 * Grid}
OffPoints == {0 - Grid, 3 * Grid}
BigTol == Grid + 200
OctaveRange == (0 - 1)..MaxOctaves

(* --------------------------- program constants ------------------------ *)

FracDen == 100
AngleFrac == 1
MidFrac == 50
PtTolDefault == 1
RtolDen == 100000

Fracs == {0 - 50, 0, AngleFrac, MidFrac, FracDen, 150}

(* ------------------------------ helpers ------------------------------- *)

Abs(x) == IF x < 0 THEN 0 - x ELSE x

Max(x, y) == IF x >= y THEN x ELSE y

Pow2(n) == IF n <= 0 THEN 1 ELSE IF n = 1 THEN 2 ELSE IF n = 2 THEN 4
           ELSE IF n = 3 THEN 8 ELSE IF n = 4 THEN 16 ELSE 32

EmptyKw == [k \in {} |-> 0]

KwargsSet == {EmptyKw,
              [k \in {"pt_tol"} |-> BigTol],
              [k \in {"pt_tol", "max_iter"} |-> IF k = "pt_tol" THEN BigTol ELSE 5]}

KwGet(kwargs, key, default) == IF key \in DOMAIN kwargs THEN kwargs[key] ELSE default

NoGuess == [given |-> FALSE, pt |-> 0]

Guesses == {NoGuess} \cup {[given |-> TRUE, pt |-> g] : g \in {Grid} \cup OffPoints}

(* --------------------- external: OptimResult, minimize ---------------- *)

OptimResults == {"CONVERGED", "MAX_STEPS_REACHED", "CONDITIONS_VIOLATED"}

\* truth value of an OptimResult member in a boolean context
Truthy(status) == status \in OptimResults

\* what one minimize call may yield: the refined point is the initial
\* guess, unmoved or moved by one grid step, with any status
OptimOutcomes == [moved : BOOLEAN, status : OptimResults]

IdealOutcome == [moved |-> FALSE, status |-> "CONVERGED"]

(* --------------------------- external: Manifold ----------------------- *)

Spaces == {"line", "interval", "warped"}

Length(space, x, y) ==
    IF space = "warped" /\ Abs(x - y) > Grid THEN 3 * Abs(x - y) ELSE Abs(x - y)

Project(space, v) ==
    IF space = "interval"
    THEN (IF v < 0 THEN 0 ELSE IF v > 2 * Grid THEN 2 * Grid ELSE v)
    ELSE v

Minimize(pt, space, out) ==
    [pt |-> IF out.moved THEN Project(space, pt + Grid) ELSE pt, status |-> out.status]

(* ----------------------- collaborator call records -------------------- *)

LengthCall(x, y) ==
    [fn |-> "length", args |-> <<x, y>>, kw |-> EmptyKw, res |-> <<>>, status |-> ""]

ProjectCall(v) ==
    [fn |-> "project", args |-> <<v>>, kw |-> EmptyKw, res |-> <<>>, status |-> ""]

MinimizeCall(pt_a, pt_b, frac, pt, kwargs, r) ==
    [fn |-> "minimize", args |-> <<pt_a, pt_b, frac, pt>>, kw |-> kwargs,
     res |-> <<r.pt>>, status |-> r.status]

NoRet == [kind |-> "none", pts |-> <<>>, status |-> "", num |-> 0, den |-> 1]

(* ------------------------------ path_length --------------------------- *)

RECURSIVE PathLengthLoop(_, _, _, _, _)
PathLengthLoop(pts, i, space, acc, prev) ==
    IF i > Len(pts) THEN acc
    ELSE LET pt_b == pts[i]
             acc2 == IF prev.given
                     THEN [l |-> acc.l + Length(space, prev.pt, pt_b),
                           log |-> Append(acc.log, LengthCall(prev.pt, pt_b))]
                     ELSE acc
         IN PathLengthLoop(pts, i + 1, space, acc2, [given |-> TRUE, pt |-> pt_b])

PathLengthClosed(pts, space) ==
    LET r == PathLengthLoop(pts, 1, space, [l |-> 0, log |-> <<>>], NoGuess)
    IN IF Len(pts) >= 2
       THEN [l |-> r.l + Length(space, pts[Len(pts)], pts[1]),
             log |-> Append(r.log, LengthCall(pts[Len(pts)], pts[1]))]
       ELSE r

PathLength(pts, space) ==
    PathLengthLoop(pts, 1, space, [l |-> 0, log |-> <<>>], NoGuess)

(* ------------------------------ point_along --------------------------- *)

AllClose(x, y, atol) == RtolDen * Abs(x - y) <= RtolDen * atol + Abs(y)

CoincidentDefaultTol(pt_a, pt_b, kwargs) == AllClose(pt_a, pt_b, PtTolDefault)

Coincident(pt_a, pt_b, kwargs) ==
    AllClose(pt_a, pt_b, KwGet(kwargs, "pt_tol", PtTolDefault))

\* (1-frac)*pt_a + frac*pt_b; exact on the grid
Lerp(pt_a, pt_b, frac) == ((FracDen - frac) * pt_a + frac * pt_b) \div FracDen

\* (pt_a+pt_b)/2; exact on the grid
Half(v) == v \div 2

InitialGuessIgnored(pt_a, pt_b, space, frac, guess) ==
    Project(space, Lerp(pt_a, pt_b, frac))

InitialGuess(pt_a, pt_b, space, frac, guess) ==
    IF guess.given THEN Project(space, guess.pt)
    ELSE Project(space, Lerp(pt_a, pt_b, frac))

InitialGuessArg(pt_a, pt_b, frac, guess) ==
    IF guess.given THEN guess.pt ELSE Lerp(pt_a, pt_b, frac)

LengthErrorUnclipped(total_length, dist_ab) == total_length - dist_ab

LengthError(total_length, dist_ab) == Max(total_length - dist_ab, 0)

\* calc_error(pt_c), as a numerator over FracDen
CalcError(pt_a, pt_b, space, frac, pt_c) ==
    LET dist_ab == Length(space, pt_a, pt_b)
        dist_a == Length(space, pt_a, pt_c)
        dist_b == Length(space, pt_c, pt_b)
        total_length == dist_a + dist_b
        length_error == LengthError(total_length, dist_ab)
        frac_error == Abs(FracDen * dist_a - frac * dist_ab)
    IN FracDen * length_error + frac_error

PointAlong(pt_a, pt_b, space, frac, guess, kwargs, out) ==
    IF frac < 0 \/ frac > FracDen
    THEN [err |-> "ValueError", pt |-> 0, status |-> "", log |-> <<>>]
    ELSE IF frac = 0
    THEN [err |-> "none", pt |-> pt_a, status |-> "CONVERGED", log |-> <<>>]
    ELSE IF frac = FracDen
    THEN [err |-> "none", pt |-> pt_b, status |-> "CONVERGED", log |-> <<>>]
    ELSE IF Coincident(pt_a, pt_b, kwargs)
    THEN [err |-> "none", pt |-> Project(space, Half(pt_a + pt_b)),
          status |-> "CONVERGED", log |-> <<ProjectCall(Half(pt_a + pt_b))>>]
    ELSE LET pt == InitialGuess(pt_a, pt_b, space, frac, guess)
             r == Minimize(pt, space, out)
         IN [err |-> "none", pt |-> r.pt, status |-> r.status,
             log |-> <<LengthCall(pt_a, pt_b),
                       ProjectCall(InitialGuessArg(pt_a, pt_b, frac, guess)),
                       MinimizeCall(pt_a, pt_b, frac, pt, kwargs, r)>>]

Midpoint(pt_a, pt_b, space, kwargs, out) ==
    PointAlong(pt_a, pt_b, space, MidFrac, NoGuess, kwargs, out)

(* --------------------------- subdivide_geodesic ----------------------- *)

Frame(pt_a, pt_b, octaves, kwargs) ==
    [pt_a |-> pt_a, pt_b |-> pt_b, octaves |-> octaves, kwargs |-> kwargs,
     pc |-> "call", midpt |-> 0, left |-> <<>>]

\* one locator call as the caller saw it
MidRec(pt_a, pt_b, frac, octaves, kwargs, depth, r, warned, recursed) ==
    [pt_a |-> pt_a, pt_b |-> pt_b, frac |-> frac, octaves |-> octaves, kwargs |-> kwargs,
     depth |-> depth, pt |-> r.pt, status |-> r.status, warned |-> warned,
     recursed |-> recursed]

\* `if not converged:` (line 24)
NotConverged(converged) == ~Truthy(converged)

RecurseOffByOne(octaves, converged) == octaves > 0 /\ Truthy(converged)

\* `if octaves > 1 and converged:` (line 26)
Recurse(octaves, converged) == octaves > 1 /\ Truthy(converged)

\* the keyword arguments the recursive calls of lines 28-29 receive
RecursiveKwargs(kwargs) == EmptyKw

ConcatKeepShared(left_half, right_half) == left_half \o right_half

\* `left_half + right_half[1:]` (line 30)
Concat(left_half, right_half) == left_half \o Tail(right_half)

\* a frame returned v: hand it to its caller, which either goes on to its
\* right half or returns in turn
RECURSIVE Unwind(_, _)
Unwind(stk, v) ==
    IF stk = <<>> THEN [stack |-> <<>>, ret |-> v, done |-> TRUE]
    ELSE LET parent == stk[Len(stk)]
             rest == SubSeq(stk, 1, Len(stk) - 1)
         IN IF parent.pc = "left"
            THEN [stack |-> rest \o <<[parent EXCEPT !.pc = "right", !.left = v],
                                      Frame(parent.midpt, parent.pt_b, parent.octaves - 1,
                                            RecursiveKwargs(parent.kwargs))>>,
                  ret |-> <<>>, done |-> FALSE]
            ELSE Unwind(rest, Concat(parent.left, v))

(* ----------------------------- slerp, angle --------------------------- *)

\* v / sqrt(v*v) for a one-dimensional nonzero v
Normalize(v) == IF v < 0 THEN 0 - 1 ELSE 1

\* stripped: the interpreter runs with assert statements removed (python -O)
Slerp(pt_a, pt_b, frac, stripped) ==
    IF ~stripped /\ ~(0 <= frac /\ frac <= FracDen)
    THEN [err |-> "AssertionError", kind |-> "none", pts |-> <<>>]
    ELSE LET a == Normalize(pt_a)
             b == Normalize(pt_b)
         IN IF frac = 0 THEN [err |-> "none", kind |-> "point", pts |-> <<a>>]
            ELSE IF frac = FracDen THEN [err |-> "none", kind |-> "point", pts |-> <<b>>]
            ELSE IF a = b THEN [err |-> "none", kind |-> "point", pts |-> <<(a + b) \div 2>>]
            ELSE [err |-> "none", kind |-> "slerp_formula", pts |-> <<a, b>>]

AngleWarnsBoth(converged_ba, converged_bc) ==
    converged_ba # "CONVERGED" /\ converged_bc # "CONVERGED"

\* the condition of line 60
AngleWarns(converged_ba, converged_bc) ==
    converged_ba # "CONVERGED" \/ converged_bc # "CONVERGED"

(* ------------------------------- actions ------------------------------ *)

Init ==
    /\ pc = "idle"
    /\ op = [name |-> "none", pts |-> <<>>, space |-> "line", frac |-> 0,
             guess |-> NoGuess, kwargs |-> EmptyKw, octaves |-> 0, stripped |-> FALSE]
    /\ stack = <<>>
    /\ ret = NoRet
    /\ err = "none"
    /\ warnings = 0
    /\ calls = <<>>
    /\ mids = <<>>
    /\ maxDepth = 0
    /\ failures = 0

OpRec(name, pts, space, frac, guess, kwargs, octaves, stripped) ==
    [name |-> name, pts |-> pts, space |-> space, frac |-> frac, guess |-> guess,
     kwargs |-> kwargs, octaves |-> octaves, stripped |-> stripped]

PtsUpTo(n) == UNION {[1..k -> Points] : k \in 0..n}

PathLengthCall ==
    /\ pc = "idle"
    /\ \E pts \in PtsUpTo(MaxPts), space \in Spaces :
         LET r == PathLength(pts, space)
         IN /\ op' = OpRec("path_length", pts, space, 0, NoGuess, EmptyKw, 0, FALSE)
            /\ ret' = [NoRet EXCEPT !.kind = "scalar", !.num = r.l]
            /\ calls' = r.log
    /\ pc' = "done"
    /\ UNCHANGED <<stack, err, warnings, mids, maxDepth, failures>>

PointAlongCall ==
    /\ pc = "idle"
    /\ \E pt_a \in Points, pt_b \in Points, space \in Spaces, frac \in Fracs,
          guess \in Guesses, kwargs \in KwargsSet, out \in OptimOutcomes :
         LET r == PointAlong(pt_a, pt_b, space, frac, guess, kwargs, out)
         IN /\ op' = OpRec("point_along", <<pt_a, pt_b>>, space, frac, guess, kwargs, 0, FALSE)
            /\ err' = r.err
            /\ ret' = IF r.err = "none"
                      THEN [NoRet EXCEPT !.kind = "pair", !.pts = <<r.pt>>, !.status = r.status]
                      ELSE NoRet
            /\ calls' = r.log
    /\ pc' = "done"
    /\ UNCHANGED <<stack, warnings, mids, maxDepth, failures>>

MidpointCall ==
    /\ pc = "idle"
    /\ \E pt_a \in Points, pt_b \in Points, space \in Spaces, kwargs \in KwargsSet,
          out \in OptimOutcomes :
         LET r == Midpoint(pt_a, pt_b, space, kwargs, out)
         IN /\ op' = OpRec("midpoint", <<pt_a, pt_b>>, space, MidFrac, NoGuess, kwargs, 0, FALSE)
            /\ ret' = [NoRet EXCEPT !.kind = "pair", !.pts = <<r.pt>>, !.status = r.status]
            /\ calls' = r.log
    /\ pc' = "done"
    /\ UNCHANGED <<stack, err, warnings, mids, maxDepth, failures>>

\* the optimizer evaluating the objective of a general-path call at pt_c
CalcErrorEval ==
    /\ pc = "idle"
    /\ \E pt_a \in Points, pt_b \in Points, space \in Spaces,
          frac \in {AngleFrac, MidFrac}, kwargs \in {EmptyKw} :
         /\ ~Coincident(pt_a, pt_b, kwargs)
         /\ \E pt_c \in Points \cup {Lerp(pt_a, pt_b, frac), Lerp(pt_a, pt_b, frac) + Grid} :
              /\ op' = OpRec("calc_error", <<pt_a, pt_b, pt_c>>, space, frac, NoGuess,
                             kwargs, 0, FALSE)
              /\ ret' = [NoRet EXCEPT !.kind = "scalar",
                                      !.num = CalcError(pt_a, pt_b, space, frac, pt_c),
                                      !.den = FracDen]
              /\ calls' = <<LengthCall(pt_a, pt_c), LengthCall(pt_c, pt_b)>>
    /\ pc' = "done"
    /\ UNCHANGED <<stack, err, warnings, mids, maxDepth, failures>>

SlerpCall ==
    /\ pc = "idle"
    /\ \E pt_a \in {0 - Grid, Grid, 2 * Grid}, pt_b \in {0 - Grid, Grid, 2 * Grid},
          frac \in Fracs, stripped \in BOOLEAN :
         LET r == Slerp(pt_a, pt_b, frac, stripped)
         IN /\ op' = OpRec("slerp", <<pt_a, pt_b>>, "line", frac, NoGuess, EmptyKw, 0, stripped)
            /\ err' = r.err
            /\ ret' = IF r.err = "none"
                      THEN [NoRet EXCEPT !.kind = r.kind, !.pts = r.pts, !.num = frac,
                                         !.den = FracDen]
                      ELSE NoRet
    /\ pc' = "done"
    /\ UNCHANGED <<stack, warnings, calls, mids, maxDepth, failures>>

AngleCall ==
    /\ pc = "idle"
    /\ \E pt_a \in Points, pt_b \in Points, pt_c \in Points, space \in Spaces,
          kwargs \in KwargsSet, out_ba \in OptimOutcomes, out_bc \in OptimOutcomes :
         LET ba == PointAlong(pt_b, pt_a, space, AngleFrac, NoGuess, kwargs, out_ba)
             bc == PointAlong(pt_b, pt_c, space, AngleFrac, NoGuess, kwargs, out_bc)
             warn == AngleWarns(ba.status, bc.status)
             d_c == Length(space, pt_b, ba.pt)
             d_a == Length(space, pt_b, bc.pt)
             d_b == Length(space, ba.pt, bc.pt)
         IN /\ op' = OpRec("angle", <<pt_a, pt_b, pt_c>>, space, AngleFrac, NoGuess,
                           kwargs, 0, FALSE)
            /\ mids' = <<MidRec(pt_b, pt_a, AngleFrac, 0, kwargs, 1, ba, warn, FALSE),
                         MidRec(pt_b, pt_c, AngleFrac, 0, kwargs, 1, bc, warn, FALSE)>>
            /\ warnings' = IF warn THEN 1 ELSE 0
            /\ calls' = ba.log \o bc.log \o
                        <<LengthCall(pt_b, ba.pt), LengthCall(pt_b, bc.pt),
                          LengthCall(ba.pt, bc.pt)>>
            \* cos_b before clipping, as num/den; den = 0 is torch's nan or inf
            /\ ret' = [NoRet EXCEPT !.kind = "angle",
                                    !.num = d_a * d_a + d_c * d_c - d_b * d_b,
                                    !.den = 2 * (d_a * d_c)]
    /\ pc' = "done"
    /\ UNCHANGED <<stack, err, maxDepth, failures>>

SubdivideCall ==
    /\ pc = "idle"
    /\ \E pt_a \in Points, pt_b \in Points, space \in Spaces, octaves \in OctaveRange,
          kwargs \in KwargsSet :
         /\ op' = OpRec("subdivide_geodesic", <<pt_a, pt_b>>, space, MidFrac, NoGuess,
                        kwargs, octaves, FALSE)
         /\ stack' = <<Frame(pt_a, pt_b, octaves, kwargs)>>
    /\ pc' = "subdividing"
    /\ maxDepth' = 1
    /\ UNCHANGED <<ret, err, warnings, calls, mids, failures>>

\* the frame on top of the stack runs lines 23-33 up to its next call
SubdivideStep ==
    /\ pc = "subdividing"
    /\ \E out \in OptimOutcomes :
         /\ out # IdealOutcome => failures < MaxFailures
         /\ LET top == stack[Len(stack)]
                rest == SubSeq(stack, 1, Len(stack) - 1)
                r == Midpoint(top.pt_a, top.pt_b, op.space, top.kwargs, out)
                midpt == r.pt
                converged == r.status
                warn == NotConverged(converged)
                rec == Recurse(top.octaves, converged)
                optimized == r.log # <<>> /\ r.log[Len(r.log)].fn = "minimize"
                nxt == IF rec
                       THEN [stack |-> rest \o
                                <<[top EXCEPT !.pc = "left", !.midpt = midpt],
                                  Frame(top.pt_a, midpt, top.octaves - 1,
                                        RecursiveKwargs(top.kwargs))>>,
                             ret |-> <<>>, done |-> FALSE]
                       ELSE Unwind(rest, <<top.pt_a, midpt, top.pt_b>>)
            IN /\ mids' = Append(mids, MidRec(top.pt_a, top.pt_b, MidFrac, top.octaves,
                                              top.kwargs, Len(stack), r, warn, rec))
               /\ warnings' = warnings + (IF warn THEN 1 ELSE 0)
               /\ calls' = calls \o r.log
               /\ failures' = failures + (IF optimized /\ out # IdealOutcome THEN 1 ELSE 0)
               /\ stack' = nxt.stack
               /\ maxDepth' = Max(maxDepth, Len(nxt.stack))
               /\ pc' = IF nxt.done THEN "done" ELSE "subdividing"
               /\ ret' = IF nxt.done THEN [NoRet EXCEPT !.kind = "points", !.pts = nxt.ret]
                         ELSE ret
    /\ UNCHANGED <<op, err>>

Next ==
    \/ PathLengthCall
    \/ PointAlongCall
    \/ MidpointCall
    \/ CalcErrorEval
    \/ SlerpCall
    \/ AngleCall
    \/ SubdivideCall
    \/ SubdivideStep

Spec == Init /\ [][Next]_vars

(* ------------------------------ properties ---------------------------- *)

Subdividing == op.name = "subdivide_geodesic"

SubdivideDone == pc = "done" /\ Subdividing

AllConverged == \A i \in DOMAIN mids : mids[i].status = "CONVERGED"

MinimizeCalls == {i \in DOMAIN calls : calls[i].fn = "minimize"}

\* C1 as stated: for every octaves = k >= 0, a subdivision whose midpoint
\* calls all report CONVERGED returns 2^k + 1 points, from pt_a to pt_b.
C1_AllOctaves ==
    (SubdivideDone /\ op.octaves >= 0 /\ AllConverged) =>
        /\ Len(ret.pts) = Pow2(op.octaves) + 1
        /\ ret.pts[1] = op.pts[1]
        /\ ret.pts[Len(ret.pts)] = op.pts[2]

\* C1 amended: for every octaves = k >= 1, a subdivision whose midpoint
\* calls all report CONVERGED returns 2^k + 1 points, the first pt_a and the
\* last pt_b; for octaves <= 0 it returns the three points of the base case.
C1_PositiveOctaves ==
    (SubdivideDone /\ AllConverged) =>
        /\ Len(ret.pts) = (IF op.octaves >= 1 THEN Pow2(op.octaves) + 1 ELSE 3)
        /\ ret.pts[1] = op.pts[1]
        /\ ret.pts[Len(ret.pts)] = op.pts[2]

C1_Witness ==
    /\ SubdivideDone /\ AllConverged
    /\ op.octaves = 2 /\ Len(ret.pts) = 5
    /\ op.pts[1] # op.pts[2]
    /\ Cardinality(MinimizeCalls) = 3

\* C2: every midpoint call of a subdivision that returns a status other than
\* CONVERGED warns once at its level and does not recurse, so that a top-level
\* call that did not converge returns exactly [pt_a, midpt, pt_b]; nothing is
\* raised.
C2_NonConvergenceIsBaseCase ==
    Subdividing =>
        /\ err = "none"
        /\ \A i \in DOMAIN mids :
             mids[i].status # "CONVERGED" => mids[i].warned /\ ~mids[i].recursed
        /\ (pc = "done" /\ mids[1].status # "CONVERGED") =>
               /\ warnings = 1
               /\ ret.pts = <<op.pts[1], mids[1].pt, op.pts[2]>>

\* C3: point_along and slerp reject a frac outside [0, 1] with the same
\* invalid-argument error (the ValueError of point_along), before any
\* collaborator call and without a result.
C3_SameInvalidArgument ==
    (pc = "done" /\ op.name \in {"point_along", "slerp"}
        /\ (op.frac < 0 \/ op.frac > FracDen)) =>
        /\ err = "ValueError"
        /\ calls = <<>>
        /\ ret = NoRet

PointAlongDone == pc = "done" /\ op.name = "point_along" /\ err = "none"

WithinPtTol == Abs(op.pts[1] - op.pts[2]) <= KwGet(op.kwargs, "pt_tol", PtTolDefault)

\* C4: point_along returns pt_a at frac 0, pt_b at frac 1, and the projected
\* ambient midpoint when 0 < frac < 1 and the points coincide within pt_tol
\* (default 1e-6); each time with CONVERGED and without calling the optimizer.
C4_FastPaths ==
    PointAlongDone =>
        /\ op.frac = 0 => ret.pts = <<op.pts[1]>>
        /\ op.frac = FracDen => ret.pts = <<op.pts[2]>>
        /\ (0 < op.frac /\ op.frac < FracDen /\ WithinPtTol) =>
               ret.pts = <<Project(op.space, (op.pts[1] + op.pts[2]) \div 2)>>
        /\ (op.frac = 0 \/ op.frac = FracDen \/ WithinPtTol) =>
               ret.status = "CONVERGED" /\ MinimizeCalls = {}

C4_Witness ==
    /\ PointAlongDone
    /\ op.frac = MidFrac /\ WithinPtTol /\ op.pts[1] # op.pts[2]
    /\ "pt_tol" \in DOMAIN op.kwargs
    /\ ret.pts = <<(op.pts[1] + op.pts[2]) \div 2>>

GeneralPath ==
    /\ PointAlongDone
    /\ 0 < op.frac /\ op.frac < FracDen
    /\ ~Coincident(op.pts[1], op.pts[2], op.kwargs)

\* C5 as stated: on the general path the optimizer is called once, starting
\* from the caller's guess when one is given and from the projected linear
\* interpolation otherwise, and its (point, status) is returned unchanged.
C5_GuessAsGiven ==
    GeneralPath =>
        /\ Cardinality(MinimizeCalls) = 1
        /\ \A i \in MinimizeCalls :
             /\ calls[i].args[4] =
                    (IF op.guess.given THEN op.guess.pt
                     ELSE Project(op.space, Lerp(op.pts[1], op.pts[2], op.frac)))
             /\ ret.pts = calls[i].res
             /\ ret.status = calls[i].status

\* C5 amended: on the general path the optimizer is called once, starting
\* from the manifold projection of the caller's guess when one is given and
\* from the projected linear interpolation otherwise, and its (point, status)
\* is returned unchanged, whatever the status.
C5_GuessProjected ==
    GeneralPath =>
        /\ Cardinality(MinimizeCalls) = 1
        /\ \A i \in MinimizeCalls :
             /\ calls[i].args[4] =
                    (IF op.guess.given THEN Project(op.space, op.guess.pt)
                     ELSE Project(op.space, Lerp(op.pts[1], op.pts[2], op.frac)))
             /\ calls[i].kw = op.kwargs
             /\ ret.pts = calls[i].res
             /\ ret.status = calls[i].status

C5_Witness ==
    /\ GeneralPath
    /\ op.guess.given /\ Project(op.space, op.guess.pt) # op.guess.pt
    /\ ret.status = "MAX_STEPS_REACHED"
    /\ \E i \in MinimizeCalls : calls[i].args[4] # ret.pts[1]

RECURSIVE SumOfPairs(_, _, _)
SumOfPairs(pts, space, n) ==
    IF n < 2 THEN 0
    ELSE SumOfPairs(pts, space, n - 1) + Length(space, pts[n - 1], pts[n])

\* C6: path_length returns 0 for no point and for one point, and otherwise
\* the sum of space.length over the consecutive pairs, calling space.length
\* once per consecutive pair, in order, and on no other pair.
C6_PathLength ==
    (pc = "done" /\ op.name = "path_length") =>
        /\ Len(op.pts) < 2 => ret.num = 0
        /\ ret.num = SumOfPairs(op.pts, op.space, Len(op.pts))
        /\ Len(calls) = Max(Len(op.pts) - 1, 0)
        /\ \A i \in DOMAIN calls :
             calls[i].fn = "length" /\ calls[i].args = <<op.pts[i], op.pts[i + 1]>>

C6_Witness ==
    /\ pc = "done" /\ op.name = "path_length"
    /\ Len(op.pts) = 3 /\ op.pts[1] # op.pts[2] /\ op.pts[2] # op.pts[3]
    /\ op.pts[1] = op.pts[3]
    /\ ret.num = 2 * Grid /\ Len(calls) = 2

AngleDone == pc = "done" /\ op.name = "angle"

\* C7: angle makes both locator calls, from pt_b toward pt_a and toward pt_c
\* at frac 0.01, warns once exactly when one of the two statuses is not
\* CONVERGED, and always goes on to the three distances of the returned
\* points and to a value.
C7_AngleDegrades ==
    AngleDone =>
        /\ Len(mids) = 2
        /\ mids[1].pt_a = op.pts[2] /\ mids[1].pt_b = op.pts[1] /\ mids[1].frac = AngleFrac
        /\ mids[2].pt_a = op.pts[2] /\ mids[2].pt_b = op.pts[3] /\ mids[2].frac = AngleFrac
        /\ warnings = (IF \E i \in 1..2 : mids[i].status # "CONVERGED" THEN 1 ELSE 0)
        /\ err = "none" /\ ret.kind = "angle"
        /\ SubSeq(calls, Len(calls) - 2, Len(calls)) =
               <<LengthCall(op.pts[2], mids[1].pt), LengthCall(op.pts[2], mids[2].pt),
                 LengthCall(mids[1].pt, mids[2].pt)>>

C7_Witness ==
    /\ AngleDone
    /\ mids[1].status = "CONVERGED" /\ mids[2].status = "CONDITIONS_VIOLATED"
    /\ warnings = 1 /\ ret.den # 0

\* C8: every midpoint call of a subdivision, at every recursion level, is
\* made with the options the caller gave to subdivide_geodesic.
C8_OptionsAtEveryLevel ==
    Subdividing => \A i \in DOMAIN mids : mids[i].kwargs = op.kwargs

TriPoints == Points \cup {Grid \div 2, 3 * Grid}

TriangleInequality(space) ==
    \A x \in TriPoints, y \in TriPoints, z \in TriPoints :
        Length(space, x, z) <= Length(space, x, y) + Length(space, y, z)

\* C9: the objective at pt_c is max(0, dA + dB - dAB) + |dA - frac*dAB|; it
\* is never negative, and where length obeys the triangle inequality it is
\* zero exactly when dA + dB = dAB and dA = frac*dAB.
C9_Objective ==
    (pc = "done" /\ op.name = "calc_error") =>
        LET dAB == Length(op.space, op.pts[1], op.pts[2])
            dA == Length(op.space, op.pts[1], op.pts[3])
            dB == Length(op.space, op.pts[3], op.pts[2])
            slack == IF dA + dB > dAB THEN dA + dB - dAB ELSE 0
            off == IF FracDen * dA >= op.frac * dAB
                   THEN FracDen * dA - op.frac * dAB
                   ELSE op.frac * dAB - FracDen * dA
        IN /\ ret.num = FracDen * slack + off
           /\ ret.num >= 0
           /\ TriangleInequality(op.space) =>
                  (ret.num = 0 <=> (dA + dB = dAB /\ FracDen * dA = op.frac * dAB))

C9_Witness ==
    /\ pc = "done" /\ op.name = "calc_error"
    /\ TriangleInequality(op.space)
    /\ op.frac = AngleFrac /\ op.pts[3] \notin Points
    /\ ret.num = 0

\* C10: a subdivision terminates for every integer octaves and every pattern
\* of midpoint outcomes: until it is done its next midpoint call can always be
\* made, each one lengthens the record of calls, and that record never exceeds
\* 2^octaves - 1 calls (one call when octaves <= 1); the recursion is never
\* deeper than max(1, octaves).
C10_Terminates ==
    Subdividing =>
        /\ pc \in {"subdividing", "done"}
        /\ pc = "subdividing" => ENABLED SubdivideStep
        /\ pc = "done" => stack = <<>> /\ Len(mids) >= 1
        /\ maxDepth <= Max(1, op.octaves) /\ Len(stack) <= maxDepth
        /\ Len(mids) <= (IF op.octaves >= 1 THEN Pow2(op.octaves) - 1 ELSE 1)

C10_Witness ==
    /\ SubdivideDone
    /\ op.octaves = 2 /\ Len(mids) = 3 /\ maxDepth = 2
    /\ \E i \in DOMAIN mids : mids[i].status # "CONVERGED"

====
